---- MODULE Spec2Model ----
(***************************************************************************)
(* Verification model of EmbodyAI_uav:                                     *)
(*   - the local-avoidance controller  (src/uav_tools/flight_controls.py)  *)
(*   - the lidar nearest-obstacle query (src/uav_tools/flight_controls.py) *)
(*   - the frame-transform functions    (src/common.py)                    *)
(*                                                                         *)
(* Units.  Lengths are integers counting half metres (1.0 m = 2), so       *)
(* MOVE_STEP = 1.0 m is 2, SAFETY_DISTANCE = 3.0 m is 6, and the "%.1f"    *)
(* rendering of a reported distance is exact.  Headings are integer        *)
(* degrees.  Angles in radians are integers counting multiples of pi/4.    *)
(***************************************************************************)
EXTENDS Integers, Sequences, FiniteSets, TLC

VARIABLES
    \* ---- move_with_local_avoidance: locals and program position
    pc,                \* position in move_with_local_avoidance
    target_distance,   \* argument target_distance
    distance_moved,    \* local distance_moved
    attempt,           \* loop variable of "for attempt in range(MAX_YAW_ATTEMPTS)"
    nearest_obstacle,  \* value returned by the most recent lidar poll
    state_yaw,         \* yaw held by the snapshot current_state (taken once, line 190)
    reported,          \* distance written into the returned OBSERVATION, NoReport if none
    \* ---- the simulated vehicle and the observation of the call
    vehicle_yaw,       \* heading the vehicle actually has
    lidar_raised,      \* the most recent getLidarData call raised
    cmd_failed,        \* a motion or heading command has raised
    trace,             \* commands issued so far, in order (at most MaxTrace recorded)
    only_1m,           \* every lidar poll of the call so far returned exactly 1.0 m
    trace_overflow,    \* a command was issued after the trace was full
    \* ---- _get_nearest_obstacle_distance as a function of its inputs
    lidar_pc, lidar_points, lidar_max_range, lidar_fails, lidar_result,
    \* ---- frame transform pipeline euler -> quaternion -> matrix -> euler
    frame_pc, euler_in, quat, rot, euler_out,
    \* ---- camera extrinsics: quaternion <-> matrix, camera <-> world
    cam_pc,            \* position in the chain of conversions
    world_pose,        \* arguments (x, y, z, roll, pitch, yaw) of world2cam, <<>> if none
    cam_q,             \* quaternion (QW, QX, QY, QZ)
    cam_t,             \* translation (TX, TY, TZ)
    cam_R,             \* rotation matrix most recently built
    cam_branch,        \* branch rotation_matrix_to_quaternion took
    cam_S,             \* divisor S it used
    cam_q_back,        \* quaternion it returned
    cam_position,      \* camera position returned by cam2world
    cam_rpy,           \* orientation returned by cam2world
    cam_t_back,        \* translation returned by world2cam_WXYZ
    \* ---- AirSimClient.connect_and_initialize and the flight_controls client binding
    conn_pc,           \* position in connect_and_initialize
    conn_attempt,      \* loop variable of "for attempt in range(self.max_retries)"
    conn_waits,        \* arguments of the time.sleep calls made so far, in order
    conn_confirmed,    \* confirmConnection returned in the current attempt
    vehicle_name,      \* self.vehicle_name
    unique_names,      \* list unique_names of _reset_and_enable_api_control
    names_tried,       \* names whose enableApiControl was called in the current attempt
    api_name,          \* name for which isApiControlEnabled returned True, "none" if none
    CLIENT_INSTANCE,   \* global CLIENT_INSTANCE of flight_controls
    binds,             \* calls of set_airsim_client made by connect_and_initialize
    last_call,         \* latest tool call: tool, client bound, outcome, client commanded
    \* ---- main_agent.run_agent
    ag_pc,             \* position in run_agent
    step_count,        \* step_count
    llm_calls,         \* calls of openai_llm_call made so far
    messages,          \* the list messages
    prev_messages,     \* messages as it was passed to the latest LLM call
    last_response,     \* shape of the latest llm_response
    lands,             \* calls of AIRSIM_CLIENT.land made so far
    \* ---- llm_agent_core.memory_manager.MemoryManager
    load_static_map,   \* self.load_static_map
    collection,        \* ids of the records of self.collection, in the order added
    seg_map,           \* the scene's jsonl file: whether it exists, its usable records
    map_imported,      \* some check_and_initialize_scene_data call imported a record
    last_check,        \* latest check call: flag, collection read, imported, imported before
    last_update,        \* latest update_search_map call: size before, outcome, item_id
    \* ---- VLA.label_genertor
    lg_pc,             \* position in a run of label_genertor.py
    lg_runs,           \* runs started so far
    LLM_CLIENT,        \* global LLM_CLIENT
    metadata_file,     \* records of trajectories_metadata.jsonl: is_labeled, vln_instruction
    file_before,       \* the file as the latest run found it
    labeled_data,      \* the list labeled_data
    sent               \* line numbers whose record the latest run sent to the LLM

ctlVars   == <<pc, target_distance, distance_moved, attempt, nearest_obstacle,
               state_yaw, reported, vehicle_yaw, lidar_raised, cmd_failed,
               trace, only_1m, trace_overflow>>
lidarVars == <<lidar_pc, lidar_points, lidar_max_range, lidar_fails, lidar_result>>
frameVars == <<frame_pc, euler_in, quat, rot, euler_out>>
camVars   == <<cam_pc, world_pose, cam_q, cam_t, cam_R, cam_branch, cam_S,
               cam_q_back, cam_position, cam_rpy, cam_t_back>>
connVars  == <<conn_pc, conn_attempt, conn_waits, conn_confirmed, vehicle_name,
               unique_names, names_tried, api_name, CLIENT_INSTANCE, binds, last_call>>
agentVars == <<ag_pc, step_count, llm_calls, messages, prev_messages, last_response, lands>>
memVars == <<load_static_map, collection, seg_map, map_imported, last_check, last_update>>
labelVars == <<lg_pc, lg_runs, LLM_CLIENT, metadata_file, file_before, labeled_data, sent>>
vars      == <<ctlVars, lidarVars, frameVars, camVars, connVars, agentVars, memVars, labelVars>>

(***************************************************************************)
(* Bounds of the model.                                                    *)
(***************************************************************************)
MaxTarget == 5      \* largest target distance tried, in half metres
MaxTrace  == 15     \* number of commands the trace records
MaxPoints == 2      \* largest number of points in a lidar point cloud

(***************************************************************************)
(* Program constants (half metres, degrees).                               *)
(***************************************************************************)
SAFETY_DISTANCE   == 6     \* SAFETY_DISTANCE = 3.0
MOVE_STEP         == 2     \* MOVE_STEP = 1.0
MAX_YAW_ATTEMPTS  == 5
YAW_CHANGE        == 30    \* yaw_change = 30.0
REROUTE_DISTANCE  == 6     \* move_forward(3.0)
DEFAULT_MAX_RANGE == 10    \* max_range: float = 5.0
FORWARD_MIN_X     == 1     \* x > 0.5
HEIGHT_BAND       == 2     \* abs(z) < 1.0

NoReport == -1

Min(a, b) == IF a < b THEN a ELSE b
Abs(a)    == IF a < 0 THEN -a ELSE a

(***************************************************************************)
(* _get_nearest_obstacle_distance                                          *)
(***************************************************************************)
\* x ** 0.5 on the squared distances that occur: the largest r with r*r <= n,
\* which is the exact root whenever n is a perfect square.
Sqrt(n) == CHOOSE r \in 0..n : r * r <= n /\ n < (r + 1) * (r + 1)

\* The points a lidar return is made of, (x, y, z) in the body frame.
\* Every horizontal distance sqrt(x^2 + y^2) below is a whole number.
LidarPoints ==
    { <<2, 0, 0>>,     \* 1.0 m straight ahead
      <<3, 4, 0>>,     \* 1.5 m ahead, 2.0 m to the side: 2.5 m away, bearing 53 deg
      <<6, 0, 0>>,     \* 3.0 m straight ahead: exactly the safety distance
      <<8, 0, 0>>,     \* 4.0 m straight ahead
      <<2, 0, 2>>,     \* 1.0 m ahead but 1.0 m below: on the edge of the height band
      <<1, 0, 0>>,     \* 0.5 m ahead: not beyond the forward threshold
      <<11, 0, 0>> }   \* 5.5 m ahead: between the two max ranges in use

RECURSIVE Flatten(_)
Flatten(ps) == IF ps = <<>> THEN <<>>
               ELSE <<ps[1][1], ps[1][2], ps[1][3]>> \o Flatten(Tail(ps))

\* point_cloud values: flat lists x0, y0, z0, x1, y1, z1, ...
PointSeqs == UNION { [1..n -> LidarPoints] : n \in 0..MaxPoints }
Clouds    == { Flatten(ps) : ps \in PointSeqs }

\* what the lidar may return to one poll of the controller: nothing in range,
\* or one of the points above
Scenes == {<<>>} \cup { Flatten(<<p>>) : p \in LidarPoints }

\* the loop "for i in range(num_points)" from index i on, carrying min_dist_sq
RECURSIVE ScanPoints(_, _, _, _)
ScanPoints(points, i, num_points, min_dist_sq) ==
    IF i >= num_points THEN min_dist_sq
    ELSE LET x == points[i * 3 + 1]
             y == points[i * 3 + 2]
             z == points[i * 3 + 3]
             dist_sq == x * x + y * y
         IN  IF x > FORWARD_MIN_X /\ Abs(z) < HEIGHT_BAND /\ dist_sq < min_dist_sq
             THEN ScanPoints(points, i + 1, num_points, dist_sq)
             ELSE ScanPoints(points, i + 1, num_points, min_dist_sq)

LidarFailClosed(max_range) == 0
\* value substituted when the query raises
LidarFailOpen(max_range) == max_range

\* raised: client.getLidarData raised inside the try block
GetNearestObstacleDistance(points, raised, max_range) ==
    IF raised THEN LidarFailOpen(max_range)
    ELSE Sqrt(ScanPoints(points, 0, Len(points) \div 3, max_range * max_range))

(***************************************************************************)
(* move_with_local_avoidance                                               *)
(***************************************************************************)
Targets  == 0..MaxTarget
Terminal == {"Done", "Stuck", "Failed"}

\* one more command in the trace of the call: <<"poll", obstacle closer than the
\* threshold>>, <<"yaw", heading commanded>> or <<"advance", distance commanded>>
Record(ev) ==
    /\ trace' = IF Len(trace) < MaxTrace THEN Append(trace, ev) ELSE trace
    /\ trace_overflow' = (trace_overflow \/ Len(trace) >= MaxTrace)

RetryCommand(here) == here
\* move_forward and set_yaw have no handler, and neither has the loop around
\* them: an exception of the simulator call leaves move_with_local_avoidance.
OnCommandFailure(here) == "Failed"

\* heading handed to set_yaw: current_state is the snapshot taken before the loop
CommandedYaw == state_yaw + YAW_CHANGE

WholeStep == MOVE_STEP
StepIgnoringProgress == Min(MOVE_STEP, target_distance)
\* step_to_move = min(MOVE_STEP, target_distance - distance_moved)
StepToMove == Min(MOVE_STEP, target_distance - distance_moved)

\* what the reroute branch adds to distance_moved (lines 219-225: nothing)
RerouteProgress == 0

\* "if attempt == MAX_YAW_ATTEMPTS - 1"
GiveUpEarly(a) == a = MAX_YAW_ATTEMPTS - 2
GiveUpLate(a) == a = MAX_YAW_ATTEMPTS
GiveUp(a) == a = MAX_YAW_ATTEMPTS - 1

\* "nearest_obstacle < SAFETY_DISTANCE"
ObstacleAtOrBelow(d) == d <= SAFETY_DISTANCE
ObstacleWithinStep(d) == d < MOVE_STEP
ObstacleAhead(d) == d < SAFETY_DISTANCE

\* entry: _ensure_client_ready() passes, locals are set, current_state is read
Call ==
    /\ pc = "idle"
    /\ \E t \in Targets : target_distance' = t
    /\ distance_moved' = 0
    /\ state_yaw' = vehicle_yaw
    /\ pc' = "while"
    /\ UNCHANGED <<attempt, nearest_obstacle, reported, vehicle_yaw, lidar_raised,
                   cmd_failed, trace, only_1m, trace_overflow>>

\* "while distance_moved < target_distance", and the final return
LoopTest ==
    /\ pc = "while"
    /\ IF distance_moved < target_distance
       THEN pc' = "poll" /\ UNCHANGED reported
       ELSE pc' = "Done" /\ reported' = distance_moved
    /\ UNCHANGED <<target_distance, distance_moved, attempt, nearest_obstacle,
                   state_yaw, vehicle_yaw, lidar_raised, cmd_failed, trace,
                   only_1m, trace_overflow>>

\* line 197: the poll of the Advancing state, max_range = SAFETY_DISTANCE * 2
PollAdvancing ==
    /\ pc = "poll"
    /\ \E raised \in BOOLEAN, points \in Scenes :
         LET d == GetNearestObstacleDistance(points, raised, SAFETY_DISTANCE * 2)
         IN  /\ nearest_obstacle' = d
             /\ lidar_raised' = raised
             /\ Record(<<"poll", d < SAFETY_DISTANCE>>)
             /\ only_1m' = (only_1m /\ d = 2)
             /\ IF ObstacleAhead(d)
                THEN pc' = "turn" /\ attempt' = 0
                ELSE pc' = "advance" /\ UNCHANGED attempt
    /\ UNCHANGED <<target_distance, distance_moved, state_yaw, reported,
                   vehicle_yaw, cmd_failed>>

\* lines 205-214: one turn attempt, set_yaw(current_yaw_deg + yaw_change)
Turn ==
    /\ pc = "turn"
    /\ Record(<<"yaw", CommandedYaw>>)
    /\ \E ok \in BOOLEAN :
         IF ok
         THEN /\ vehicle_yaw' = CommandedYaw
              /\ pc' = "repoll"
              /\ UNCHANGED cmd_failed
         ELSE /\ cmd_failed' = TRUE
              /\ pc' = OnCommandFailure("turn")
              /\ UNCHANGED vehicle_yaw
    /\ UNCHANGED <<target_distance, distance_moved, attempt, nearest_obstacle,
                   state_yaw, reported, lidar_raised, only_1m>>

\* lines 218-228: the poll after a turn (default max_range), then reroute,
\* another attempt, or the Stuck return
Repoll ==
    /\ pc = "repoll"
    /\ \E raised \in BOOLEAN, points \in Scenes :
         LET d == GetNearestObstacleDistance(points, raised, DEFAULT_MAX_RANGE)
         IN  /\ nearest_obstacle' = d
             /\ lidar_raised' = raised
             /\ Record(<<"poll", d < SAFETY_DISTANCE>>)
             /\ only_1m' = (only_1m /\ d = 2)
             /\ IF ~ObstacleAhead(d)
                THEN pc' = "reroute" /\ UNCHANGED <<attempt, reported>>
                ELSE IF GiveUp(attempt)
                     THEN pc' = "Stuck" /\ reported' = distance_moved
                          /\ UNCHANGED attempt
                     ELSE pc' = "turn" /\ attempt' = attempt + 1
                          /\ UNCHANGED reported
    /\ UNCHANGED <<target_distance, distance_moved, state_yaw, vehicle_yaw,
                   cmd_failed>>

\* lines 222-225: move_forward(3.0), break, and on to the next loop test
Reroute ==
    /\ pc = "reroute"
    /\ Record(<<"advance", REROUTE_DISTANCE>>)
    /\ \E ok \in BOOLEAN :
         IF ok
         THEN /\ distance_moved' = distance_moved + RerouteProgress
              /\ pc' = "while"
              /\ UNCHANGED cmd_failed
         ELSE /\ cmd_failed' = TRUE
              /\ pc' = OnCommandFailure("reroute")
              /\ UNCHANGED distance_moved
    /\ UNCHANGED <<target_distance, attempt, nearest_obstacle, state_yaw,
                   reported, vehicle_yaw, lidar_raised, only_1m>>

\* lines 232-234: one normal step
Advance ==
    /\ pc = "advance"
    /\ Record(<<"advance", StepToMove>>)
    /\ \E ok \in BOOLEAN :
         IF ok
         THEN /\ distance_moved' = distance_moved + StepToMove
              /\ pc' = "while"
              /\ UNCHANGED cmd_failed
         ELSE /\ cmd_failed' = TRUE
              /\ pc' = OnCommandFailure("advance")
              /\ UNCHANGED distance_moved
    /\ UNCHANGED <<target_distance, attempt, nearest_obstacle, state_yaw,
                   reported, vehicle_yaw, lidar_raised, only_1m>>

CtlInit ==
    /\ pc = "idle"
    /\ target_distance = 0
    /\ distance_moved = 0
    /\ attempt = 0
    /\ nearest_obstacle = 0
    /\ state_yaw = 0
    /\ reported = NoReport
    /\ vehicle_yaw = 0
    /\ lidar_raised = FALSE
    /\ cmd_failed = FALSE
    /\ trace = <<>>
    /\ only_1m = TRUE
    /\ trace_overflow = FALSE

LidarIdle ==
    /\ lidar_pc = "idle"
    /\ lidar_points = <<>>
    /\ lidar_max_range = DEFAULT_MAX_RANGE
    /\ lidar_fails = FALSE
    /\ lidar_result = 0

FrameIdle ==
    /\ frame_pc = "idle"
    /\ euler_in = <<0, 0, 0>>
    /\ quat = <<>>
    /\ rot = <<>>
    /\ euler_out = <<>>

CamIdle ==
    /\ cam_pc = "idle"
    /\ world_pose = <<>>
    /\ cam_q = <<>>
    /\ cam_t = <<>>
    /\ cam_R = <<>>
    /\ cam_branch = "none"
    /\ cam_S = <<>>
    /\ cam_q_back = <<>>
    /\ cam_position = <<>>
    /\ cam_rpy = <<>>
    /\ cam_t_back = <<>>

ConnIdle ==
    /\ conn_pc = "off"
    /\ conn_attempt = 0
    /\ conn_waits = <<>>
    /\ conn_confirmed = FALSE
    /\ vehicle_name = "Drone1"
    /\ unique_names = <<>>
    /\ names_tried = <<>>
    /\ api_name = "none"
    /\ CLIENT_INSTANCE = "None"
    /\ binds = 0
    /\ last_call = <<>>

AgentIdle ==
    /\ ag_pc = "off"
    /\ step_count = 0
    /\ llm_calls = 0
    /\ messages = <<>>
    /\ prev_messages = <<>>
    /\ last_response = "none"
    /\ lands = 0

MemIdle ==
    /\ load_static_map = FALSE
    /\ collection = <<>>
    /\ seg_map = [exists |-> FALSE, records |-> 0]
    /\ map_imported = FALSE
    /\ last_check = <<>>
    /\ last_update = <<>>

LabelIdle ==
    /\ lg_pc = "off"
    /\ lg_runs = 0
    /\ LLM_CLIENT = "None"
    /\ metadata_file = <<>>
    /\ file_before = <<>>
    /\ labeled_data = <<>>
    /\ sent = {}

Init == CtlInit /\ LidarIdle /\ FrameIdle /\ CamIdle /\ ConnIdle /\ AgentIdle /\ MemIdle /\ LabelIdle

Next ==
    \/ Call /\ UNCHANGED <<lidarVars, frameVars, camVars, connVars, agentVars, memVars, labelVars>>
    \/ LoopTest /\ UNCHANGED <<lidarVars, frameVars, camVars, connVars, agentVars, memVars, labelVars>>
    \/ PollAdvancing /\ UNCHANGED <<lidarVars, frameVars, camVars, connVars, agentVars, memVars, labelVars>>
    \/ Turn /\ UNCHANGED <<lidarVars, frameVars, camVars, connVars, agentVars, memVars, labelVars>>
    \/ Repoll /\ UNCHANGED <<lidarVars, frameVars, camVars, connVars, agentVars, memVars, labelVars>>
    \/ Reroute /\ UNCHANGED <<lidarVars, frameVars, camVars, connVars, agentVars, memVars, labelVars>>
    \/ Advance /\ UNCHANGED <<lidarVars, frameVars, camVars, connVars, agentVars, memVars, labelVars>>

Spec == Init /\ [][Next]_vars

\* every command (sensor poll, heading, motion) blocks until it returns, and the
\* single-threaded loop then always takes its next step
FairSpec == Init /\ [][Next]_vars /\ WF_vars(Next)

(***************************************************************************)
(* Reading the trace of a call                                             *)
(***************************************************************************)
IsPoll(e)    == e[1] = "poll"
IsYaw(e)     == e[1] = "yaw"
IsAdvance(e) == e[1] = "advance"

PollsOf(tr)    == SelectSeq(tr, IsPoll)
YawsOf(tr)     == SelectSeq(tr, IsYaw)
AdvancesOf(tr) == SelectSeq(tr, IsAdvance)

RECURSIVE SumAdvances(_)
SumAdvances(tr) ==
    IF tr = <<>> THEN 0
    ELSE (IF IsAdvance(tr[1]) THEN tr[1][2] ELSE 0) + SumAdvances(Tail(tr))

CeilDiv(a, b) == (a + b - 1) \div b

\* the ranging source reported no obstacle on every poll so far
AllPollsClear == \A i \in 1..Len(trace) : IsPoll(trace[i]) => ~trace[i][2]

\* the ranging source reported an obstacle on the first poll and none afterwards
ObstacleOnFirstPollOnly ==
    /\ PollsOf(trace) # <<>>
    /\ PollsOf(trace)[1][2]
    /\ \A i \in 2..Len(PollsOf(trace)) : ~PollsOf(trace)[i][2]

\* a command without the value it carries, for a heading command
Shape(e) == IF IsYaw(e) THEN <<"yaw">> ELSE e

\* the normal Advancing steps that cover a distance of d from scratch
RECURSIVE NormalSteps(_)
NormalSteps(d) ==
    IF d <= 0 THEN <<>>
    ELSE <<<<"poll", FALSE>>, <<"advance", Min(MOVE_STEP, d)>>>>
         \o NormalSteps(d - Min(MOVE_STEP, d))

IsPrefix(s, t) == Len(s) <= Len(t) /\ \A i \in 1..Len(s) : s[i] = t[i]

(***************************************************************************)
(* C1: move_with_local_avoidance always terminates: whatever the ranging   *)
(* source reports, and provided each command returns, a call eventually    *)
(* returns Done or Stuck (or leaves with the failure of a command).        *)
(***************************************************************************)
C1_Terminates == <>(pc \in Terminal)

(***************************************************************************)
(* C2: on Stuck the reported distance is the sum of the distances of all   *)
(* advance commands of the call, reroute steps included.                   *)
(***************************************************************************)
C2_StuckReportsAdvanced ==
    (pc = "Stuck" /\ ~trace_overflow) => reported = SumAdvances(trace)

(***************************************************************************)
(* C3: when every poll is clear, the call ends in Done after exactly       *)
(* ceil(target / MOVE_STEP) advance commands and no heading command, and   *)
(* reports (and has advanced) exactly the target distance.                 *)
(***************************************************************************)
C3_ClearRun ==
    (AllPollsClear /\ ~trace_overflow) =>
        /\ YawsOf(trace) = <<>>
        /\ pc # "Stuck"
        /\ pc = "Done" =>
             /\ Len(AdvancesOf(trace)) = CeilDiv(target_distance, MOVE_STEP)
             /\ reported = target_distance
             /\ SumAdvances(trace) = target_distance

C3_Witness ==
    /\ pc = "Done" /\ AllPollsClear /\ ~trace_overflow
    /\ target_distance = 5 /\ Len(AdvancesOf(trace)) = 3

(***************************************************************************)
(* C4: when every poll reads an obstacle at 1 m and the target is          *)
(* positive, the call issues exactly MAX_YAW_ATTEMPTS heading commands and *)
(* no advance command, and returns Stuck reporting 0 m.                    *)
(***************************************************************************)
C4_BlockedRun ==
    (only_1m /\ ~trace_overflow /\ pc # "idle" /\ target_distance > 0) =>
        /\ AdvancesOf(trace) = <<>>
        /\ Len(YawsOf(trace)) <= MAX_YAW_ATTEMPTS
        /\ pc # "Done"
        /\ pc = "Stuck" =>
             /\ Len(YawsOf(trace)) = MAX_YAW_ATTEMPTS
             /\ reported = 0

C4_Witness ==
    /\ pc = "Stuck" /\ only_1m /\ ~trace_overflow /\ target_distance > 0
    /\ Len(PollsOf(trace)) = MAX_YAW_ATTEMPTS + 1

(***************************************************************************)
(* C5: when only the first poll reports an obstacle, the commands are: one *)
(* heading command, the clearing poll, at once one advance of the reroute  *)
(* step (3 m), then normal steps, each after its own poll, until Done.     *)
(***************************************************************************)
RerouteThenResume ==
    <<<<"poll", TRUE>>, <<"yaw">>, <<"poll", FALSE>>, <<"advance", REROUTE_DISTANCE>>>>
    \o NormalSteps(target_distance)

C5_RerouteOnce ==
    (ObstacleOnFirstPollOnly /\ ~trace_overflow) =>
        /\ IsPrefix([i \in 1..Len(trace) |-> Shape(trace[i])], RerouteThenResume)
        /\ pc # "Stuck"
        /\ pc = "Done" => Len(trace) = Len(RerouteThenResume)

C5_Witness ==
    /\ pc = "Done" /\ ObstacleOnFirstPollOnly /\ ~trace_overflow
    /\ target_distance = 5 /\ Len(trace) = 10

(***************************************************************************)
(* C6: a lidar query that raises yields the max range, which the           *)
(* controller reads as no obstacle: after such a poll it advances (normal  *)
(* step or reroute step) and issues no heading command.                    *)
(***************************************************************************)
C6_FailOpen ==
    lidar_raised =>
        /\ pc \notin {"turn", "repoll", "Stuck"}
        /\ pc = "advance" => nearest_obstacle = SAFETY_DISTANCE * 2
        /\ pc = "reroute" => nearest_obstacle = DEFAULT_MAX_RANGE

C6_Witness == lidar_raised /\ pc = "reroute" /\ Len(YawsOf(trace)) = 2

(***************************************************************************)
(* C7: a failed advance or heading command ends the call as a failure: no  *)
(* observation is returned, and nothing is issued afterwards.              *)
(***************************************************************************)
C7_FailurePropagates ==
    /\ [](cmd_failed => (pc = "Failed" /\ reported = NoReport))
    /\ [][cmd_failed => UNCHANGED <<pc, trace, trace_overflow, reported>>]_vars

C7_Witness ==
    /\ cmd_failed /\ pc = "Failed" /\ ~trace_overflow
    /\ IsAdvance(trace[Len(trace)]) /\ Len(YawsOf(trace)) = 1

(***************************************************************************)
(* C16: within one obstacle encounter the turn attempts accumulate: each   *)
(* heading command is the heading the vehicle has at that moment plus the  *)
(* 30 degree increment, so the k-th attempt commands the heading at the    *)
(* start of the encounter plus k * 30 and no heading is commanded twice.   *)
(***************************************************************************)
\* heading of the vehicle just before command i of the trace: the heading set
\* by the latest heading command before it, the initial heading if there is none
RECURSIVE HeadingBefore(_)
HeadingBefore(i) ==
    IF i <= 1 THEN 0
    ELSE IF IsYaw(trace[i - 1]) THEN trace[i - 1][2]
    ELSE HeadingBefore(i - 1)

C16_TurnsAccumulate ==
    ~trace_overflow =>
        \A i \in 1..Len(trace) :
            IsYaw(trace[i]) => trace[i][2] = HeadingBefore(i) + YAW_CHANGE

(***************************************************************************)
(* C17: an advance command (normal step or reroute step) is issued only    *)
(* right after a ranging poll that returned at least the safety distance,  *)
(* that poll being later than the latest heading command.                  *)
(***************************************************************************)
C17_AdvanceOnlyWhenClear ==
    /\ pc \in {"advance", "reroute"} => nearest_obstacle >= SAFETY_DISTANCE
    /\ \A i \in 1..Len(trace) :
           IsAdvance(trace[i]) =>
               (i > 1 /\ IsPoll(trace[i - 1]) /\ ~trace[i - 1][2])

C17_Witness ==
    /\ pc = "while" /\ ~trace_overflow /\ Len(trace) = 6
    /\ IsAdvance(trace[4]) /\ trace[4][2] = REROUTE_DISTANCE
    /\ IsAdvance(trace[6]) /\ trace[6][2] = MOVE_STEP

(***************************************************************************)
(* C18: the accumulated distance starts at 0, never decreases and stays    *)
(* between 0 and the target; each normal step has the length               *)
(* min(MOVE_STEP, target - accumulated) > 0 and adds exactly that length.  *)
(***************************************************************************)
C18_ProgressAccounting ==
    /\ [](pc = "idle" => distance_moved = 0)
    /\ [](pc # "idle" => (0 <= distance_moved /\ distance_moved <= target_distance))
    /\ [][distance_moved' >= distance_moved]_vars
    /\ [][(pc = "advance" /\ pc' = "while") =>
            LET len == Min(MOVE_STEP, target_distance - distance_moved)
            IN  /\ len > 0
                /\ distance_moved' = distance_moved + len
                /\ (~trace_overflow' => trace'[Len(trace')] = <<"advance", len>>)]_vars

C18_Witness ==
    /\ pc = "while" /\ ~trace_overflow
    /\ target_distance = 5 /\ distance_moved = 5
    /\ trace[Len(trace)] = <<"advance", 1>>

(***************************************************************************)
(* C19: the distances of all advance commands of a call (normal steps and  *)
(* reroute steps) never add up to more than the target, and add up to the  *)
(* target when the call returns Done.                                      *)
(***************************************************************************)
C19_NoOvershoot ==
    (~trace_overflow /\ pc # "idle") =>
        /\ SumAdvances(trace) <= target_distance
        /\ pc = "Done" => SumAdvances(trace) = target_distance

(***************************************************************************)
(* C20: an obstacle encounter takes at most MAX_YAW_ATTEMPTS heading       *)
(* commands and as many re-polls; turning stops at the first clear         *)
(* re-poll; and the attempt count starts afresh at every encounter.        *)
(***************************************************************************)
\* number of turn attempts (heading command, then re-poll) the trace ends with
RECURSIVE TrailingTurns(_)
TrailingTurns(tr) ==
    IF Len(tr) >= 2 /\ IsPoll(tr[Len(tr)]) /\ IsYaw(tr[Len(tr) - 1])
    THEN 1 + TrailingTurns(SubSeq(tr, 1, Len(tr) - 2))
    ELSE 0

C20_BoundedRetry ==
    ~trace_overflow =>
        /\ attempt \in 0..(MAX_YAW_ATTEMPTS - 1)
        /\ TrailingTurns(trace) <= MAX_YAW_ATTEMPTS
        /\ pc = "turn" => attempt = TrailingTurns(trace)
        /\ pc = "Stuck" => TrailingTurns(trace) = MAX_YAW_ATTEMPTS
        /\ \A i \in 1..Len(trace) :
               IsYaw(trace[i]) => (i > 1 /\ IsPoll(trace[i - 1]) /\ trace[i - 1][2])
        /\ \A i \in 2..(Len(trace) - 1) :
               (IsPoll(trace[i]) /\ ~trace[i][2] /\ IsYaw(trace[i - 1])) =>
                   trace[i + 1] = <<"advance", REROUTE_DISTANCE>>

\* a second encounter of the same call that again takes all five attempts
C20_Witness ==
    /\ pc = "Stuck" /\ ~trace_overflow
    /\ Len(AdvancesOf(trace)) = 1
    /\ Len(YawsOf(trace)) = MAX_YAW_ATTEMPTS + 1

(***************************************************************************)
(* _get_nearest_obstacle_distance on its own: one query on a point cloud   *)
(***************************************************************************)
MaxRanges == {DEFAULT_MAX_RANGE, SAFETY_DISTANCE * 2}

LidarInit ==
    /\ lidar_pc = "query"
    /\ lidar_points \in Clouds
    /\ lidar_max_range \in MaxRanges
    /\ lidar_fails \in BOOLEAN
    /\ lidar_result = 0

LidarQuery ==
    /\ lidar_pc = "query"
    /\ lidar_result' =
           GetNearestObstacleDistance(lidar_points, lidar_fails, lidar_max_range)
    /\ lidar_pc' = "returned"
    /\ UNCHANGED <<lidar_points, lidar_max_range, lidar_fails>>

LidarNext == LidarQuery /\ UNCHANGED <<ctlVars, frameVars, camVars, connVars, agentVars, memVars, labelVars>>

LidarStart == CtlInit /\ LidarInit /\ FrameIdle /\ CamIdle /\ ConnIdle /\ AgentIdle /\ MemIdle /\ LabelIdle

LidarSpec == LidarStart /\ [][LidarNext]_vars

\* the forward sector the query is documented to cover (line 111: the 90 degree
\* sector ahead, yaw +/- 45 degrees): lateral offset no larger than the forward one
InForwardSector(x, y) == Abs(y) <= x

\* the smallest horizontal distance over the points of the cloud that are ahead,
\* inside the forward sector and inside the height band, and max_range if none is
\* nearer than that
RECURSIVE NearestInSector(_, _)
NearestInSector(points, max_range) ==
    IF Len(points) < 3 THEN max_range
    ELSE LET x == points[1]
             y == points[2]
             z == points[3]
             rest == NearestInSector(SubSeq(points, 4, Len(points)), max_range)
         IN  IF x > FORWARD_MIN_X /\ InForwardSector(x, y) /\ Abs(z) < HEIGHT_BAND
             THEN Min(Sqrt(x * x + y * y), rest)
             ELSE rest

(***************************************************************************)
(* C8: the nearest-obstacle query returns the smallest horizontal distance *)
(* over the points that are ahead, inside the lateral band and inside the  *)
(* vertical band, capped by the max range; a point outside the lateral     *)
(* band never lowers the result.                                           *)
(***************************************************************************)
C8_NearestWithinBands ==
    (lidar_pc = "returned" /\ ~lidar_fails) =>
        lidar_result = NearestInSector(lidar_points, lidar_max_range)

(***************************************************************************)
(* Exact arithmetic for the frame transforms.  A number (a + b*sqrt(2))/d  *)
(* is the triple <<a, b, d>> with d > 0 and gcd(a, b, d) = 1, so that two  *)
(* numbers are equal exactly when their triples are.  The sines, cosines   *)
(* and products of the angles used below are all of this form.             *)
(***************************************************************************)
\* "CHOOSE val \in {e : x \in {a}} : TRUE" below is e with x standing for the
\* value of a: Python evaluates an argument once, before the call.

RECURSIVE Gcd(_, _)
Gcd(a, b) == IF b = 0 THEN Abs(a) ELSE Gcd(b, a % b)

\* a zero denominator is the float nan (or inf), which every operation hands on
NotANumber == <<0, 0, 0>>

Num(a, b, d) ==
    IF d = 0 THEN NotANumber
    ELSE LET g == Gcd(Gcd(Abs(a), Abs(b)), Abs(d))
             sg == IF d < 0 THEN -1 ELSE 1
         IN  <<(sg * a) \div g, (sg * b) \div g, (sg * d) \div g>>

Int2Num(n)  == <<n, 0, 1>>
Zero        == Int2Num(0)
One         == Int2Num(1)
HalfSqrt2   == <<0, 1, 2>>            \* sqrt(2)/2 = 0.70710678...
Neg(p)      == (CHOOSE val \in {<<-x[1], -x[2], x[3]>> : x \in {p}} : TRUE)
Plus(p, q)  ==
    (CHOOSE val \in {Num(x[1] * y[3] + y[1] * x[3], x[2] * y[3] + y[2] * x[3], x[3] * y[3])
            : x \in {p}, y \in {q}} : TRUE)
Minus(p, q) == Plus(p, Neg(q))
Times(p, q) ==
    (CHOOSE val \in {Num(x[1] * y[1] + 2 * x[2] * y[2], x[1] * y[2] + x[2] * y[1], x[3] * y[3])
            : x \in {p}, y \in {q}} : TRUE)
Twice(p)    == Times(Int2Num(2), p)
Square(p)   == Times(p, p)
\* p / q: 1/(a + b*sqrt(2)) = (a - b*sqrt(2))/(a*a - 2*b*b)
Div(p, q)   ==
    (CHOOSE val \in {Times(p, Num(y[3] * y[1], -(y[3] * y[2]), y[1] * y[1] - 2 * y[2] * y[2]))
            : y \in {q}} : TRUE)
\* math.sqrt of a rational whose root is r/d or r*sqrt(2)/d
NumSqrt(p)  ==
    (CHOOSE val \in {LET a == x[1]
            d == x[3]
        IN  IF x[2] # 0 \/ a < 0 \/ d = 0 THEN NotANumber
            ELSE IF Sqrt(a * d) * Sqrt(a * d) = a * d THEN Num(Sqrt(a * d), 0, d)
            ELSE IF Sqrt(2 * a * d) * Sqrt(2 * a * d) = 2 * a * d
                 THEN Num(0, Sqrt(2 * a * d), 2 * d)
            ELSE NotANumber : x \in {p}} : TRUE)

\* sign of a + b*sqrt(2)
Sign(p) ==
    (CHOOSE val \in {LET a == x[1]
            b == x[2]
        IN  IF a >= 0 /\ b >= 0 THEN (IF a = 0 /\ b = 0 THEN 0 ELSE 1)
            ELSE IF a <= 0 /\ b <= 0 THEN -1
            ELSE IF a > 0 THEN (IF a * a > 2 * b * b THEN 1 ELSE -1)
            ELSE (IF 2 * b * b > a * a THEN 1 ELSE -1) : x \in {p}} : TRUE)

\* p < q; a comparison with nan is false
Less(p, q)  ==
    (CHOOSE val \in {x # NotANumber /\ y # NotANumber /\ Sign(Minus(y, x)) > 0
            : x \in {p}, y \in {q}} : TRUE)

\* Angles in radians count multiples of pi/4; math.cos and math.sin on them.
Cos(n) ==
    LET k == n % 8
    IN  CASE k = 0 -> One
          [] k \in {1, 7} -> HalfSqrt2
          [] k \in {2, 6} -> Zero
          [] k \in {3, 5} -> Neg(HalfSqrt2)
          [] k = 4 -> Neg(One)
Sin(n) == Cos(n - 2)

\* "angle * 0.5" for an angle that is a multiple of pi/2
HalfAngle(n) == n \div 2

\* value standing for a result that is no multiple of pi/4
NotExact == 1000

\* math.asin, in multiples of pi/4
Asin(v) ==
    CASE v = Zero -> 0
      [] v = One -> 2
      [] v = Neg(One) -> -2
      [] v = HalfSqrt2 -> 1
      [] v = Neg(HalfSqrt2) -> -1
      [] OTHER -> NotExact

\* math.atan2(y, x), in multiples of pi/4, in (-pi, pi]
Atan2(y, x) ==
    LET sy == Sign(y)
        sx == Sign(x)
    IN  IF sy = 0 THEN (IF sx < 0 THEN 4 ELSE 0)
        ELSE IF sx = 0 THEN 2 * sy
        ELSE IF Square(y) = Square(x) THEN (IF sx > 0 THEN sy ELSE 3 * sy)
        ELSE NotExact

\* math.degrees
Degrees(n) == IF n = NotExact THEN NotExact ELSE 45 * n

(***************************************************************************)
(* src/common.py                                                           *)
(***************************************************************************)
\* returns the list [x, y, z, w]
euler_to_quaternion(roll, pitch, yaw) ==
    LET cy == Cos(HalfAngle(yaw))
        sy == Sin(HalfAngle(yaw))
        cp == Cos(HalfAngle(pitch))
        sp == Sin(HalfAngle(pitch))
        cr == Cos(HalfAngle(roll))
        sr == Sin(HalfAngle(roll))
        w == Plus(Times(Times(cy, cp), cr), Times(Times(sy, sp), sr))
        x == Minus(Times(Times(cy, cp), sr), Times(Times(sy, sp), cr))
        y == Plus(Times(Times(sy, cp), cr), Times(Times(cy, sp), sr))
        z == Minus(Times(Times(sy, cp), sr), Times(Times(cy, sp), cr))
    IN  <<x, y, z, w>>

\* the matrix with the sign of the QZ*QW term of R[0, 1] turned
RotationMatrixSignSlip(QW, QX, QY, QZ) ==
    << << Minus(One, Twice(Plus(Square(QY), Square(QZ)))),
          Twice(Plus(Times(QX, QY), Times(QZ, QW))),
          Twice(Plus(Times(QX, QZ), Times(QY, QW))) >>,
       << Twice(Plus(Times(QX, QY), Times(QZ, QW))),
          Minus(One, Twice(Plus(Square(QX), Square(QZ)))),
          Twice(Minus(Times(QY, QZ), Times(QX, QW))) >>,
       << Twice(Minus(Times(QX, QZ), Times(QY, QW))),
          Twice(Plus(Times(QY, QZ), Times(QX, QW))),
          Minus(One, Twice(Plus(Square(QX), Square(QY)))) >> >>

quaternion_to_rotation_matrix(QW, QX, QY, QZ) ==
    << << Minus(One, Twice(Plus(Square(QY), Square(QZ)))),
          Twice(Minus(Times(QX, QY), Times(QZ, QW))),
          Twice(Plus(Times(QX, QZ), Times(QY, QW))) >>,
       << Twice(Plus(Times(QX, QY), Times(QZ, QW))),
          Minus(One, Twice(Plus(Square(QX), Square(QZ)))),
          Twice(Minus(Times(QY, QZ), Times(QX, QW))) >>,
       << Twice(Minus(Times(QX, QZ), Times(QY, QW))),
          Twice(Plus(Times(QY, QZ), Times(QX, QW))),
          Minus(One, Twice(Plus(Square(QX), Square(QY)))) >> >>

\* the conversion without its gimbal-lock branch
EulerAnglesWithoutLockBranch(R) ==
    <<Degrees(Atan2(R[3][2], R[3][3])), Degrees(Asin(Neg(R[3][1]))),
      Degrees(Atan2(R[2][1], R[1][1]))>>

\* R[i, j] of the source is R[i + 1][j + 1] here; returns degrees
rotation_matrix_to_euler_angles(R) ==
    LET pitch == Asin(Neg(R[3][1]))
        lock  == R[3][1] \in {One, Neg(One)}
        roll  == IF ~lock THEN Atan2(R[3][2], R[3][3]) ELSE Atan2(Neg(R[2][3]), R[2][2])
        yaw   == IF ~lock THEN Atan2(R[2][1], R[1][1]) ELSE 0
    IN  <<Degrees(roll), Degrees(pitch), Degrees(yaw)>>

\* numpy on vectors and 3x3 matrices
Dot(u, v)    ==
    (CHOOSE val \in {Plus(Plus(Times(a[1], b[1]), Times(a[2], b[2])), Times(a[3], b[3]))
            : a \in {u}, b \in {v}} : TRUE)
Column(R, j) == <<R[1][j], R[2][j], R[3][j]>>
Transpose(R) == (CHOOSE val \in {<<Column(M, 1), Column(M, 2), Column(M, 3)>>
        : M \in {R}} : TRUE)
MatVec(R, v) == (CHOOSE val \in {<<Dot(M[1], a), Dot(M[2], a), Dot(M[3], a)>>
        : M \in {R}, a \in {v}} : TRUE)
MatMul(A, B) ==
    (CHOOSE val \in {<< <<Dot(M[1], Bt[1]), Dot(M[1], Bt[2]), Dot(M[1], Bt[3])>>,
           <<Dot(M[2], Bt[1]), Dot(M[2], Bt[2]), Dot(M[2], Bt[3])>>,
           <<Dot(M[3], Bt[1]), Dot(M[3], Bt[2]), Dot(M[3], Bt[3])>> >> : M \in {A}, Bt \in {Transpose(B)}} : TRUE)
NegVec(v)    == (CHOOSE val \in {<<Neg(a[1]), Neg(a[2]), Neg(a[3])>> : a \in {v}} : TRUE)

\* the camera position with R in the place of R.T
CameraPositionUntransposed(QW, QX, QY, QZ, TX, TY, TZ) ==
    NegVec(MatVec(quaternion_to_rotation_matrix(QW, QX, QY, QZ), <<TX, TY, TZ>>))

calculate_camera_position(QW, QX, QY, QZ, TX, TY, TZ) ==
    LET R   == quaternion_to_rotation_matrix(QW, QX, QY, QZ)
        R_t == Transpose(R)
        T   == <<TX, TY, TZ>>
    IN  NegVec(MatVec(R_t, T))

\* returns <<camera_position, rpy>>
cam2world(QW, QX, QY, QZ, TX, TY, TZ) ==
    LET camera_position == calculate_camera_position(QW, QX, QY, QZ, TX, TY, TZ)
        R == quaternion_to_rotation_matrix(QW, QX, QY, QZ)
    IN  <<camera_position, rotation_matrix_to_euler_angles(R)>>

\* np.radians of a multiple of 45 degrees, in multiples of pi/4
Radians(deg) == deg \div 45

euler_to_rotation_matrix(roll, pitch, yaw) ==
    LET r == Radians(roll)
        p == Radians(pitch)
        y == Radians(yaw)
        R_x == << <<One, Zero, Zero>>,
                  <<Zero, Cos(r), Neg(Sin(r))>>,
                  <<Zero, Sin(r), Cos(r)>> >>
        R_y == << <<Cos(p), Zero, Sin(p)>>,
                  <<Zero, One, Zero>>,
                  <<Neg(Sin(p)), Zero, Cos(p)>> >>
        R_z == << <<Cos(y), Neg(Sin(y)), Zero>>,
                  <<Sin(y), Cos(y), Zero>>,
                  <<Zero, Zero, One>> >>
    IN  MatMul(R_z, MatMul(R_y, R_x))

\* the index (0, 1, 2) of the last largest element
ArgMaxLast(v) ==
    CHOOSE i \in 0..2 :
        /\ \A j \in 0..2 : ~Less(v[i + 1], v[j + 1])
        /\ \A j \in 0..2 : j > i => Less(v[j + 1], v[i + 1])

\* np.argmax: the index (0, 1, 2) of the first largest element
ArgMax(v) ==
    CHOOSE i \in 0..2 :
        /\ \A j \in 0..2 : ~Less(v[i + 1], v[j + 1])
        /\ \A j \in 0..2 : j < i => Less(v[j + 1], v[i + 1])

MatrixTrace(R) == (CHOOSE val \in {Plus(Plus(M[1][1], M[2][2]), M[3][3])
        : M \in {R}} : TRUE)

\* the branch of rotation_matrix_to_quaternion: "direct" is "trace > 0"
QuaternionBranch(R) ==
    IF Sign(MatrixTrace(R)) > 0 THEN "direct"
    ELSE LET i == ArgMax(<<R[1][1], R[2][2], R[3][3]>>)
         IN  IF i = 0 THEN "i=0" ELSE IF i = 1 THEN "i=1" ELSE "i=2"

\* the argument of sqrt in the branch taken
QuaternionRadicand(R) ==
    CASE QuaternionBranch(R) = "direct" -> Plus(MatrixTrace(R), One)
      [] QuaternionBranch(R) = "i=0" -> Minus(Minus(Plus(One, R[1][1]), R[2][2]), R[3][3])
      [] QuaternionBranch(R) = "i=1" -> Minus(Minus(Plus(One, R[2][2]), R[1][1]), R[3][3])
      [] QuaternionBranch(R) = "i=2" -> Minus(Minus(Plus(One, R[3][3]), R[1][1]), R[2][2])

\* the divisor without its factor 2
DivisorWithoutFactor(R) == NumSqrt(QuaternionRadicand(R))

\* S of the branch taken
QuaternionDivisor(R) == Twice(NumSqrt(QuaternionRadicand(R)))

\* returns <<QW, QX, QY, QZ>>
rotation_matrix_to_quaternion(R) ==
    (CHOOSE val \in {LET quarterS == Times(<<1, 0, 4>>, S)
    IN  CASE QuaternionBranch(R) = "direct" ->
               << quarterS,
                  Div(Minus(R[3][2], R[2][3]), S),
                  Div(Minus(R[1][3], R[3][1]), S),
                  Div(Minus(R[2][1], R[1][2]), S) >>
          [] QuaternionBranch(R) = "i=0" ->
               << Div(Minus(R[3][2], R[2][3]), S),
                  quarterS,
                  Div(Plus(R[1][2], R[2][1]), S),
                  Div(Plus(R[1][3], R[3][1]), S) >>
          [] QuaternionBranch(R) = "i=1" ->
               << Div(Minus(R[1][3], R[3][1]), S),
                  Div(Plus(R[1][2], R[2][1]), S),
                  quarterS,
                  Div(Plus(R[2][3], R[3][2]), S) >>
          [] QuaternionBranch(R) = "i=2" ->
               << Div(Minus(R[2][1], R[1][2]), S),
                  Div(Plus(R[1][3], R[3][1]), S),
                  Div(Plus(R[2][3], R[3][2]), S),
                  quarterS >> : S \in {QuaternionDivisor(R)}} : TRUE)

calculate_camera_position_from_world(R_t, camera_position) ==
    NegVec(MatVec(R_t, camera_position))

\* returns <<QW, QX, QY, QZ, T[0], T[1], T[2]>>
world2cam(x, y, z, roll, pitch, yaw) ==
    (CHOOSE val \in {(CHOOSE val \in {<<Q[1], Q[2], Q[3], Q[4], T[1], T[2], T[3]>> : Q \in {rotation_matrix_to_quaternion(R)}, T \in {calculate_camera_position_from_world(R, <<x, y, z>>)}} : TRUE)
            : R \in {euler_to_rotation_matrix(roll, pitch, yaw)}} : TRUE)

world2cam_WXYZ(x, y, z, QW, QX, QY, QZ) ==
    LET R == quaternion_to_rotation_matrix(QW, QX, QY, QZ)
        position_world == <<x, y, z>>
    IN  calculate_camera_position_from_world(R, position_world)

(***************************************************************************)
(* The pipeline euler -> quaternion -> rotation matrix -> euler, on the    *)
(* angles -90, 0, 90 and 180 degrees.                                      *)
(***************************************************************************)
QuarterTurns == {-2, 0, 2, 4}

FrameInit ==
    /\ frame_pc = "euler"
    /\ euler_in \in QuarterTurns \X QuarterTurns \X QuarterTurns
    /\ quat = <<>>
    /\ rot = <<>>
    /\ euler_out = <<>>

EulerToQuaternion ==
    /\ frame_pc = "euler"
    /\ quat' = euler_to_quaternion(euler_in[1], euler_in[2], euler_in[3])
    /\ frame_pc' = "quaternion"
    /\ UNCHANGED <<euler_in, rot, euler_out>>

\* the list [x, y, z, w] is handed over as (QW, QX, QY, QZ)
QuaternionToMatrix ==
    /\ frame_pc = "quaternion"
    /\ rot' = quaternion_to_rotation_matrix(quat[4], quat[1], quat[2], quat[3])
    /\ frame_pc' = "matrix"
    /\ UNCHANGED <<euler_in, quat, euler_out>>

MatrixToEuler ==
    /\ frame_pc = "matrix"
    /\ euler_out' = rotation_matrix_to_euler_angles(rot)
    /\ frame_pc' = "done"
    /\ UNCHANGED <<euler_in, quat, rot>>

FrameNext ==
    \/ EulerToQuaternion /\ UNCHANGED <<ctlVars, lidarVars, camVars, connVars, agentVars, memVars, labelVars>>
    \/ QuaternionToMatrix /\ UNCHANGED <<ctlVars, lidarVars, camVars, connVars, agentVars, memVars, labelVars>>
    \/ MatrixToEuler /\ UNCHANGED <<ctlVars, lidarVars, camVars, connVars, agentVars, memVars, labelVars>>

FrameStart == CtlInit /\ LidarIdle /\ FrameInit /\ CamIdle /\ ConnIdle /\ AgentIdle /\ MemIdle /\ LabelIdle

FrameSpec == FrameStart /\ [][FrameNext]_vars

SameAngle(deg1, deg2) == (deg1 - deg2) % 360 = 0

(***************************************************************************)
(* C9: roll = 0, pitch = 0, yaw = 90 degrees gives the quaternion          *)
(* w = 0.7071, x = 0, y = 0, z = 0.7071, whose rotation matrix has         *)
(* R[0][1] = -1 and R[1][0] = 1; and every pure yaw gives a quaternion     *)
(* whose x and y components are zero.                                      *)
(***************************************************************************)
C9_YawIsAboutZ ==
    /\ (frame_pc \in {"quaternion", "matrix", "done"} /\ euler_in = <<0, 0, 2>>) =>
           quat = <<Zero, Zero, HalfSqrt2, HalfSqrt2>>
    /\ (frame_pc \in {"matrix", "done"} /\ euler_in = <<0, 0, 2>>) =>
           (rot[1][2] = Neg(One) /\ rot[2][1] = One)
    /\ (frame_pc \in {"quaternion", "matrix", "done"}
          /\ euler_in[1] = 0 /\ euler_in[2] = 0) =>
           (quat[1] = Zero /\ quat[2] = Zero)

(***************************************************************************)
(* C10: away from gimbal lock (pitch strictly between -90 and 90 degrees)  *)
(* the pipeline euler -> quaternion -> matrix -> euler returns the angles  *)
(* it was given.                                                           *)
(***************************************************************************)
C10_EulerRoundTrip ==
    (frame_pc = "done" /\ euler_in[2] = 0) =>
        \A i \in 1..3 : SameAngle(euler_out[i], Degrees(euler_in[i]))

(***************************************************************************)
(* C13: for a matrix with R[2][0] exactly +1 or -1 the conversion to Euler *)
(* angles returns yaw = 0, pitch = -90 or +90 degrees respectively and     *)
(* roll = atan2(-R[1][2], R[1][1]), and no undefined value; for every      *)
(* other matrix roll = atan2(R[2][1], R[2][2]) and                         *)
(* yaw = atan2(R[1][0], R[0][0]).                                          *)
(***************************************************************************)
C13_GimbalLock ==
    frame_pc = "done" =>
        /\ rot[3][1] = One =>
               euler_out = <<Degrees(Atan2(Neg(rot[2][3]), rot[2][2])), -90, 0>>
        /\ rot[3][1] = Neg(One) =>
               euler_out = <<Degrees(Atan2(Neg(rot[2][3]), rot[2][2])), 90, 0>>
        /\ rot[3][1] \notin {One, Neg(One)} =>
               /\ euler_out[1] = Degrees(Atan2(rot[3][2], rot[3][3]))
               /\ euler_out[3] = Degrees(Atan2(rot[2][1], rot[1][1]))
        /\ \A i \in 1..3 : euler_out[i] \in -180..180

\* a matrix at gimbal lock whose degenerate roll is not zero
C13_Witness ==
    /\ frame_pc = "done"
    /\ rot[3][1] = One
    /\ euler_out[1] = 90 /\ euler_out[2] = -90 /\ euler_out[3] = 0

(***************************************************************************)
(* Camera extrinsics.  Either a quaternion and a translation go through    *)
(* quaternion -> matrix -> quaternion, cam2world and world2cam_WXYZ, or a  *)
(* world pose goes through world2cam, cam2world and world2cam_WXYZ.        *)
(***************************************************************************)
Half == <<1, 0, 2>>

Components ==
    {Zero, One, Neg(One), Half, Neg(Half), HalfSqrt2, Neg(HalfSqrt2),
     <<3, 0, 5>>, <<-3, 0, 5>>, <<4, 0, 5>>, <<-4, 0, 5>>}

NormSq(q) == Plus(Plus(Square(q[1]), Square(q[2])), Plus(Square(q[3]), Square(q[4])))

UnitQuaternions ==
    {q \in Components \X Components \X Components \X Components : NormSq(q) = One}

NonUnitQuaternions ==
    { <<Int2Num(2), Zero, Zero, Zero>>,
      <<Half, Zero, Zero, Zero>>,
      <<Zero, Zero, Zero, Zero>>,
      <<One, One, Zero, Zero>>,
      <<Zero, Int2Num(2), Zero, Zero>>,
      <<Zero, One, One, Zero>>,
      <<One, One, One, One>> }

Translations ==
    { <<Int2Num(1), Zero, Zero>>,
      <<Zero, Int2Num(2), Int2Num(-1)>>,
      <<Int2Num(3), Int2Num(-2), Half>> }

RightAngles == {-90, 0, 90, 180}

WorldPoses ==
    {<<t[1], t[2], t[3], a[1], a[2], a[3]>> :
        t \in Translations, a \in RightAngles \X RightAngles \X RightAngles}

CamInit ==
    /\ \/ /\ cam_pc = "quaternion"
          /\ world_pose = <<>>
          /\ cam_q \in UnitQuaternions \cup NonUnitQuaternions
          /\ cam_t \in Translations
       \/ /\ cam_pc = "world"
          /\ world_pose \in WorldPoses
          /\ cam_q = <<>>
          /\ cam_t = <<>>
    /\ cam_R = <<>>
    /\ cam_branch = "none"
    /\ cam_S = <<>>
    /\ cam_q_back = <<>>
    /\ cam_position = <<>>
    /\ cam_rpy = <<>>
    /\ cam_t_back = <<>>

QuaternionToRotationMatrix ==
    /\ cam_pc = "quaternion"
    /\ cam_R' = quaternion_to_rotation_matrix(cam_q[1], cam_q[2], cam_q[3], cam_q[4])
    /\ cam_pc' = "matrix"
    /\ UNCHANGED <<world_pose, cam_q, cam_t, cam_branch, cam_S, cam_q_back,
                   cam_position, cam_rpy, cam_t_back>>

RotationMatrixToQuaternion ==
    /\ cam_pc = "matrix"
    /\ cam_branch' = QuaternionBranch(cam_R)
    /\ cam_S' = QuaternionDivisor(cam_R)
    /\ cam_q_back' = rotation_matrix_to_quaternion(cam_R)
    /\ cam_pc' = "extrinsics"
    /\ UNCHANGED <<world_pose, cam_q, cam_t, cam_R, cam_position, cam_rpy, cam_t_back>>

World2Cam ==
    /\ cam_pc = "world"
    /\ LET R   == euler_to_rotation_matrix(world_pose[4], world_pose[5], world_pose[6])
           out == world2cam(world_pose[1], world_pose[2], world_pose[3],
                            world_pose[4], world_pose[5], world_pose[6])
       IN  /\ cam_R' = R
           /\ cam_branch' = QuaternionBranch(R)
           /\ cam_S' = QuaternionDivisor(R)
           /\ cam_q' = <<out[1], out[2], out[3], out[4]>>
           /\ cam_t' = <<out[5], out[6], out[7]>>
    /\ cam_pc' = "extrinsics"
    /\ UNCHANGED <<world_pose, cam_q_back, cam_position, cam_rpy, cam_t_back>>

Cam2World ==
    /\ cam_pc = "extrinsics"
    /\ LET out == cam2world(cam_q[1], cam_q[2], cam_q[3], cam_q[4],
                            cam_t[1], cam_t[2], cam_t[3])
       IN  /\ cam_position' = out[1]
           /\ cam_rpy' = out[2]
    /\ cam_pc' = "position"
    /\ UNCHANGED <<world_pose, cam_q, cam_t, cam_R, cam_branch, cam_S, cam_q_back,
                   cam_t_back>>

World2CamWXYZ ==
    /\ cam_pc = "position"
    /\ cam_t_back' = world2cam_WXYZ(cam_position[1], cam_position[2], cam_position[3],
                                    cam_q[1], cam_q[2], cam_q[3], cam_q[4])
    /\ cam_pc' = "translation"
    /\ UNCHANGED <<world_pose, cam_q, cam_t, cam_R, cam_branch, cam_S, cam_q_back,
                   cam_position, cam_rpy>>

CamNext ==
    \/ QuaternionToRotationMatrix /\ UNCHANGED <<ctlVars, lidarVars, frameVars, connVars, agentVars, memVars, labelVars>>
    \/ RotationMatrixToQuaternion /\ UNCHANGED <<ctlVars, lidarVars, frameVars, connVars, agentVars, memVars, labelVars>>
    \/ World2Cam /\ UNCHANGED <<ctlVars, lidarVars, frameVars, connVars, agentVars, memVars, labelVars>>
    \/ Cam2World /\ UNCHANGED <<ctlVars, lidarVars, frameVars, connVars, agentVars, memVars, labelVars>>
    \/ World2CamWXYZ /\ UNCHANGED <<ctlVars, lidarVars, frameVars, connVars, agentVars, memVars, labelVars>>

CamStart == CtlInit /\ LidarIdle /\ FrameIdle /\ CamInit /\ ConnIdle /\ AgentIdle /\ MemIdle /\ LabelIdle

CamSpec == CamStart /\ [][CamNext]_vars

IsUnit(q) == NormSq(q) = One
NegQuaternion(q) == <<Neg(q[1]), Neg(q[2]), Neg(q[3]), Neg(q[4])>>
\* the quaternion given went through quaternion -> matrix -> quaternion
RoundTripDone == world_pose = <<>> /\ cam_pc \in {"extrinsics", "position", "translation"}

(***************************************************************************)
(* C11: for a unit quaternion q, rotation_matrix_to_quaternion applied to  *)
(* quaternion_to_rotation_matrix(q) returns q or -q, whichever branch of   *)
(* the trace/argmax selection is taken.                                    *)
(***************************************************************************)
C11_QuaternionRoundTrip ==
    (RoundTripDone /\ IsUnit(cam_q)) =>
        (cam_q_back = cam_q \/ cam_q_back = NegQuaternion(cam_q))

\* a half turn with the largest diagonal entry last: branch i = 2, result -q
C11_Witness ==
    /\ RoundTripDone /\ IsUnit(cam_q)
    /\ cam_branch = "i=2"
    /\ cam_q_back = NegQuaternion(cam_q)
    /\ cam_q_back # cam_q

Identity == << <<One, Zero, Zero>>, <<Zero, One, Zero>>, <<Zero, Zero, One>> >>
Orthonormal(R) == MatMul(Transpose(R), R) = Identity
Det(R) ==
    Plus(Minus(Times(R[1][1], Minus(Times(R[2][2], R[3][3]), Times(R[2][3], R[3][2]))),
               Times(R[1][2], Minus(Times(R[2][1], R[3][3]), Times(R[2][3], R[3][1])))),
         Times(R[1][3], Minus(Times(R[2][1], R[3][2]), Times(R[2][2], R[3][1]))))
IsRotation(R) == Orthonormal(R) /\ Det(R) = One

(***************************************************************************)
(* C14: rotation_matrix_to_quaternion takes the direct formula exactly     *)
(* when trace(R) > 0; otherwise it takes the branch of the largest of      *)
(* R[0][0], R[1][1], R[2][2], the first one on ties; and on a rotation     *)
(* matrix the divisor S of the branch taken is not zero.                   *)
(***************************************************************************)
C14_BranchSelection ==
    cam_branch # "none" =>
        LET d == <<cam_R[1][1], cam_R[2][2], cam_R[3][3]>>
            name == <<"i=0", "i=1", "i=2">>
        IN  /\ cam_branch = "direct" <=> Sign(Plus(Plus(d[1], d[2]), d[3])) > 0
            /\ cam_branch # "direct" =>
                   \E i \in 1..3 :
                       /\ cam_branch = name[i]
                       /\ \A j \in 1..3 : ~Less(d[i], d[j])
                       /\ \A j \in 1..(i - 1) : Less(d[j], d[i])
            /\ IsRotation(cam_R) => (cam_S # Zero /\ cam_S # NotANumber)

\* a half turn (trace = -1) whose two largest diagonal entries are equal
C14_Witness ==
    /\ cam_branch = "i=0"
    /\ IsRotation(cam_R)
    /\ MatrixTrace(cam_R) = Neg(One)
    /\ cam_R[1][1] = cam_R[2][2]
    /\ cam_S = <<0, 2, 1>>

\* quaternion_to_rotation_matrix has been applied to the quaternion given
MatrixBuilt == world_pose = <<>> /\ cam_pc \notin {"idle", "quaternion"}

(***************************************************************************)
(* C15 as stated: for a unit quaternion the matrix R satisfies             *)
(* R^T R = I and det(R) = +1; for a quaternion that is not a unit          *)
(* quaternion R is not orthonormal.                                        *)
(***************************************************************************)
C15_Orthonormality ==
    MatrixBuilt =>
        /\ IsUnit(cam_q) => (Orthonormal(cam_R) /\ Det(cam_R) = One)
        /\ ~IsUnit(cam_q) => ~Orthonormal(cam_R)

(***************************************************************************)
(* C15 amended: for a unit quaternion R^T R = I and det(R) = +1; for a     *)
(* quaternion that is not unit R is not orthonormal if x, y, z are not all *)
(* zero, and R is the identity if x = y = z = 0.                           *)
(***************************************************************************)
C15_OrthonormalityAmended ==
    MatrixBuilt =>
        /\ IsUnit(cam_q) => (Orthonormal(cam_R) /\ Det(cam_R) = One)
        /\ (~IsUnit(cam_q) /\ <<cam_q[2], cam_q[3], cam_q[4]>> # <<Zero, Zero, Zero>>) =>
               ~Orthonormal(cam_R)
        /\ (~IsUnit(cam_q) /\ <<cam_q[2], cam_q[3], cam_q[4]>> = <<Zero, Zero, Zero>>) =>
               cam_R = Identity

C15_Witness ==
    /\ MatrixBuilt
    /\ cam_q = <<Int2Num(2), Zero, Zero, Zero>>
    /\ Orthonormal(cam_R)

(***************************************************************************)
(* src/uav_tools/airsim_client.py: connect_and_initialize, and the client  *)
(* binding of src/uav_tools/flight_controls.py.  Python's None is the      *)
(* string "None"; the simulator decides the outcome of every RPC call.     *)
(***************************************************************************)
max_retries == 5

RECURSIVE Pow2(_)
Pow2(n) == IF n = 0 THEN 1 ELSE 2 * Pow2(n - 1)

\* a wait that grows by one second per attempt
LinearWait(a) == a + 1

\* time.sleep(2 ** attempt)
BackoffWait(a) == Pow2(a)

VehicleNames == {"Drone1", "UAV7", "", "None"}

\* vehicle_names_to_try as it is, without the set
NamesToTry(vn) == {<<vn, "Drone1", "">>}

\* list(set(name for name in vehicle_names_to_try if name is not None)): the
\* distinct names, in whatever order the set yields them
UniqueNames(vn) ==
    LET S == {n \in {vn, "Drone1", ""} : n # "None"}
    IN  {order \in [1..Cardinality(S) -> S] :
            \A i, j \in 1..Cardinality(S) : order[i] = order[j] => i = j}

Clients == {"self", "other"}

FlightTools ==
    {"fly_to_gps", "move_forward", "set_yaw", "move_with_local_avoidance",
     "execute_vln_instruction", "_get_nearest_obstacle_distance"}

\* the tool begins with _ensure_client_ready(); in fly_to_gps the call is
\* commented out
EnsuresClientReady(tool) == tool # "fly_to_gps"

\* what a tool call does with the client bound at the moment of the call:
\* <<outcome, client that receives the simulator commands>>
ToolOutcome(tool, instance) ==
    IF instance = "None"
    THEN IF EnsuresClientReady(tool) THEN <<"ConnectionError", "None">>
         ELSE <<"AttributeError", "None">>
    ELSE <<"returned", instance>>

ConnInit ==
    /\ conn_pc = "off"
    /\ conn_attempt = 0
    /\ conn_waits = <<>>
    /\ conn_confirmed = FALSE
    /\ vehicle_name \in VehicleNames
    /\ unique_names = <<>>
    /\ names_tried = <<>>
    /\ api_name = "none"
    /\ CLIENT_INSTANCE = "None"
    /\ binds = 0
    /\ last_call = <<>>

\* set_airsim_client(client), called from outside connect_and_initialize
SetAirsimClient ==
    /\ conn_pc \in {"off", "True", "False"}
    /\ \E c \in Clients : CLIENT_INSTANCE' = c
    /\ UNCHANGED <<conn_pc, conn_attempt, conn_waits, conn_confirmed, vehicle_name,
                   unique_names, names_tried, api_name, binds, last_call>>

CallTool ==
    /\ conn_pc \in {"off", "True", "False"}
    /\ \E tool \in FlightTools :
           last_call' = <<tool, CLIENT_INSTANCE>> \o ToolOutcome(tool, CLIENT_INSTANCE)
    /\ UNCHANGED <<conn_pc, conn_attempt, conn_waits, conn_confirmed, vehicle_name,
                   unique_names, names_tried, api_name, CLIENT_INSTANCE, binds>>

ConnectAndInitialize ==
    /\ conn_pc = "off"
    /\ conn_pc' = "confirm"
    /\ UNCHANGED <<conn_attempt, conn_waits, conn_confirmed, vehicle_name, unique_names,
                   names_tried, api_name, CLIENT_INSTANCE, binds, last_call>>

\* one pass of the for loop begins: MultirotorClient(), confirmConnection()
ConfirmConnection ==
    /\ conn_pc = "confirm"
    /\ \E ok \in BOOLEAN :
           /\ conn_confirmed' = ok
           /\ conn_pc' = IF ok THEN "reset" ELSE "except"
    /\ unique_names' = <<>>
    /\ names_tried' = <<>>
    /\ api_name' = "none"
    /\ UNCHANGED <<conn_attempt, conn_waits, vehicle_name, CLIENT_INSTANCE, binds,
                   last_call>>

\* _reset_and_enable_api_control up to its for loop
ResetEnvironment ==
    /\ conn_pc = "reset"
    /\ \E ok \in BOOLEAN :
           IF ok
           THEN /\ unique_names' \in UniqueNames(vehicle_name)
                /\ conn_pc' = "names"
           ELSE /\ unique_names' = unique_names
                /\ conn_pc' = "except"
    /\ UNCHANGED <<conn_attempt, conn_waits, conn_confirmed, vehicle_name, names_tried,
                   api_name, CLIENT_INSTANCE, binds, last_call>>

\* one pass of "for name in unique_names"
TryName ==
    /\ conn_pc = "names"
    /\ Len(names_tried) < Len(unique_names)
    /\ LET name == unique_names[Len(names_tried) + 1]
       IN  /\ names_tried' = Append(names_tried, name)
           /\ \E out \in {"enabled", "not enabled", "raised"} :
                  IF out = "enabled"
                  THEN /\ vehicle_name' = name
                       /\ api_name' = name
                       /\ conn_pc' = "bind"
                  ELSE UNCHANGED <<vehicle_name, api_name, conn_pc>>
    /\ UNCHANGED <<conn_attempt, conn_waits, conn_confirmed, unique_names,
                   CLIENT_INSTANCE, binds, last_call>>

\* the for loop ends with success = False: raise Exception(error_message)
NamesExhausted ==
    /\ conn_pc = "names"
    /\ Len(names_tried) = Len(unique_names)
    /\ conn_pc' = "except"
    /\ UNCHANGED <<conn_attempt, conn_waits, conn_confirmed, vehicle_name, unique_names,
                   names_tried, api_name, CLIENT_INSTANCE, binds, last_call>>

\* the import of set_airsim_client, set_airsim_client(self), return True
BindAndReturn ==
    /\ conn_pc = "bind"
    /\ \E imported \in BOOLEAN :
           IF imported
           THEN CLIENT_INSTANCE' = "self" /\ binds' = binds + 1
           ELSE UNCHANGED <<CLIENT_INSTANCE, binds>>
    /\ conn_pc' = "True"
    /\ UNCHANGED <<conn_attempt, conn_waits, conn_confirmed, vehicle_name, unique_names,
                   names_tried, api_name, last_call>>

\* except Exception: time.sleep(2 ** attempt); then the next pass, or return False
ExceptAndSleep ==
    /\ conn_pc = "except"
    /\ conn_waits' = Append(conn_waits, BackoffWait(conn_attempt))
    /\ conn_attempt' = conn_attempt + 1
    /\ conn_pc' = IF conn_attempt + 1 < max_retries THEN "confirm" ELSE "False"
    /\ UNCHANGED <<conn_confirmed, vehicle_name, unique_names, names_tried, api_name,
                   CLIENT_INSTANCE, binds, last_call>>

ConnNext ==
    \/ SetAirsimClient /\ UNCHANGED <<ctlVars, lidarVars, frameVars, camVars, agentVars, memVars, labelVars>>
    \/ CallTool /\ UNCHANGED <<ctlVars, lidarVars, frameVars, camVars, agentVars, memVars, labelVars>>
    \/ ConnectAndInitialize /\ UNCHANGED <<ctlVars, lidarVars, frameVars, camVars, agentVars, memVars, labelVars>>
    \/ ConfirmConnection /\ UNCHANGED <<ctlVars, lidarVars, frameVars, camVars, agentVars, memVars, labelVars>>
    \/ ResetEnvironment /\ UNCHANGED <<ctlVars, lidarVars, frameVars, camVars, agentVars, memVars, labelVars>>
    \/ TryName /\ UNCHANGED <<ctlVars, lidarVars, frameVars, camVars, agentVars, memVars, labelVars>>
    \/ NamesExhausted /\ UNCHANGED <<ctlVars, lidarVars, frameVars, camVars, agentVars, memVars, labelVars>>
    \/ BindAndReturn /\ UNCHANGED <<ctlVars, lidarVars, frameVars, camVars, agentVars, memVars, labelVars>>
    \/ ExceptAndSleep /\ UNCHANGED <<ctlVars, lidarVars, frameVars, camVars, agentVars, memVars, labelVars>>

ConnStart == CtlInit /\ LidarIdle /\ FrameIdle /\ CamIdle /\ ConnInit /\ AgentIdle /\ MemIdle /\ LabelIdle

ConnSpec == ConnStart /\ [][ConnNext]_vars

\* every RPC call and every sleep returns, and the single thread then takes its
\* next step
FairConnSpec == ConnStart /\ [][ConnNext]_vars /\ WF_vars(ConnNext)

ConnRunning == conn_pc \in {"confirm", "reset", "names", "bind", "except"}

(***************************************************************************)
(* C21: while no client is bound, every flight-control tool fails with     *)
(* ConnectionError before it issues a simulator command; once a client is  *)
(* bound, a tool call uses that client.                                    *)
(***************************************************************************)
C21_ClientReady ==
    last_call # <<>> =>
        /\ last_call[2] = "None" =>
               (last_call[3] = "ConnectionError" /\ last_call[4] = "None")
        /\ last_call[2] # "None" => last_call[4] = last_call[2]

(***************************************************************************)
(* C22: connect_and_initialize makes at most max_retries attempts, stops   *)
(* at the first success with True, returns False after max_retries failed  *)
(* attempts and always terminates; the wait after the k-th failed attempt  *)
(* is 2^(k-1) seconds, each wait twice the one before.                     *)
(***************************************************************************)
ConnReturned == conn_pc \in {"True", "False"}

C22_RetrySchedule ==
    /\ conn_attempt <= max_retries
    /\ ConnRunning => conn_attempt < max_retries
    /\ Len(conn_waits) = conn_attempt
    /\ \A k \in 1..Len(conn_waits) : conn_waits[k] = Pow2(k - 1)
    /\ \A k \in 1..(Len(conn_waits) - 1) : conn_waits[k + 1] = 2 * conn_waits[k]
    /\ conn_pc = "True" => conn_attempt < max_retries
    /\ conn_pc = "False" => conn_attempt = max_retries

C22_ConnectionRetry ==
    /\ []C22_RetrySchedule
    /\ [][conn_pc = "bind" => (conn_pc' = "True")]_vars
    /\ [][ConnReturned => conn_pc' = conn_pc /\ conn_attempt' = conn_attempt]_vars
    /\ (ConnRunning ~> ConnReturned)

C22_Witness ==
    /\ conn_pc = "False"
    /\ conn_waits = <<1, 2, 4, 8, 16>>

(***************************************************************************)
(* C23: connect_and_initialize returns True only when, within one attempt, *)
(* the connection was confirmed and a vehicle name ended with API control  *)
(* enabled, and self.vehicle_name is then that name; each distinct         *)
(* candidate name is tried at most once per attempt, and                   *)
(* _reset_and_enable_api_control raises exactly when no candidate ends     *)
(* with API control enabled; a connect that returns False has never called *)
(* set_airsim_client and leaves the binding as it was.                     *)
(***************************************************************************)
C23_State ==
    /\ conn_pc \in {"bind", "True"} =>
           /\ conn_confirmed
           /\ api_name # "none"
           /\ vehicle_name = api_name
           /\ names_tried # <<>>
           /\ names_tried[Len(names_tried)] = api_name
    /\ \A i, j \in 1..Len(names_tried) : names_tried[i] = names_tried[j] => i = j
    /\ \A i \in 1..Len(names_tried) : names_tried[i] = unique_names[i]
    /\ conn_pc \in {"reset", "names"} => api_name = "none"
    /\ conn_pc = "False" => binds = 0

C23_InitialiseContract ==
    /\ []C23_State
    /\ [][(conn_pc = "reset" \/ conn_pc = "names") /\ conn_pc' = "except" =>
              (api_name' = "none")]_vars
    /\ [][conn_pc = "names" /\ conn_pc' = "except" =>
              Len(names_tried) = Len(unique_names)]_vars
    /\ [][conn_pc = "names" /\ conn_pc' = "bind" => (api_name' # "none")]_vars
    /\ [][ConnRunning /\ conn_pc' # "True" =>
              CLIENT_INSTANCE' = CLIENT_INSTANCE /\ binds' = binds]_vars

C23_Witness ==
    /\ conn_pc = "True"
    /\ conn_attempt = 2
    /\ Len(names_tried) = 3
    /\ vehicle_name = ""
    /\ CLIENT_INSTANCE = "self"

(***************************************************************************)
(* src/main_agent.py: run_agent.  A message is <<"system">>, <<"user">>,   *)
(* <<"assistant", tool_calls>> or <<"tool", tool_call_id, content>>; a     *)
(* tool call is <<id, kind>>, the kind saying what its name, its arguments *)
(* and the tool do; content is the leading word of the observation.        *)
(***************************************************************************)
max_steps == 10

MaxToolRounds == 2

ToolCallKinds == {"returns", "land", "unknown tool", "malformed arguments", "raises"}

\* the dispatch of one tool call without the try statement around it
DispatchUnguarded(kind) ==
    CASE kind = "unknown tool" -> <<"ERROR", FALSE>>
      [] kind \in {"malformed arguments", "raises"} -> <<"", TRUE>>
      [] OTHER -> <<"OBSERVATION", FALSE>>

\* lines 280-295 for one tool call: <<observation, an exception leaves the loop>>
Dispatch(kind) ==
    CASE kind = "unknown tool" -> <<"ERROR", FALSE>>
      [] kind \in {"malformed arguments", "raises"} -> <<"EXECUTION ERROR", FALSE>>
      [] OTHER -> <<"OBSERVATION", FALSE>>

\* the tool calls of the LLM response of one round: one call or two, the ids
\* given by the LLM
ToolCallLists(round) ==
    {<<<<<<round, 1>>, k>>>> : k \in ToolCallKinds} \cup
    {<<<<<<round, 1>>, k[1]>>, <<<<round, 2>>, k[2]>>>> : k \in ToolCallKinds \X ToolCallKinds}

\* the tool messages put in front of the assistant message they answer
OutputsThenAssistant(tool_calls, n) ==
    [k \in 1..n |-> <<"tool", tool_calls[k][1], Dispatch(tool_calls[k][2])[1]>>]
        \o <<<<"assistant", tool_calls>>>>

\* messages.append(llm_response), then tool_outputs of the first n tool calls
TurnMessages(tool_calls, n) ==
    <<<<"assistant", tool_calls>>>> \o
        [k \in 1..n |-> <<"tool", tool_calls[k][1], Dispatch(tool_calls[k][2])[1]>>]

\* the tool calls whose dispatch raises out of the for loop
Aborting(tool_calls) == {k \in 1..Len(tool_calls) : Dispatch(tool_calls[k][2])[2]}

LandCalls(tool_calls, n) == Cardinality({k \in 1..n : tool_calls[k][2] = "land"})

ToolRounds(msgs) == Cardinality({i \in 1..Len(msgs) : msgs[i][1] = "assistant"})

AgentInit ==
    /\ ag_pc = "off"
    /\ step_count = 0
    /\ llm_calls = 0
    /\ messages = <<>>
    /\ prev_messages = <<>>
    /\ last_response = "none"
    /\ lands = 0

RunAgent ==
    /\ ag_pc = "off"
    /\ ag_pc' = "loop"
    /\ messages' = <<<<"system">>, <<"user">>>>
    /\ prev_messages' = <<>>
    /\ step_count' = 0
    /\ UNCHANGED <<llm_calls, last_response, lands>>

\* an iteration whose llm_response has tool_calls
ToolCallsResponse ==
    /\ ag_pc = "loop"
    /\ step_count < max_steps
    /\ ToolRounds(messages) < MaxToolRounds
    /\ llm_calls' = llm_calls + 1
    /\ prev_messages' = messages
    /\ last_response' = "tool_calls"
    /\ \E tool_calls \in ToolCallLists(ToolRounds(messages) + 1) :
           IF Aborting(tool_calls) = {}
           THEN /\ messages' = messages \o TurnMessages(tool_calls, Len(tool_calls))
                /\ lands' = lands + LandCalls(tool_calls, Len(tool_calls))
                /\ step_count' = step_count + 1
                /\ ag_pc' = "loop"
           ELSE LET first == CHOOSE k \in Aborting(tool_calls) :
                                 \A j \in Aborting(tool_calls) : k <= j
                IN  /\ messages' = messages \o TurnMessages(tool_calls, 0)
                    /\ lands' = lands + LandCalls(tool_calls, first - 1)
                    /\ step_count' = step_count
                    /\ ag_pc' = "aborted"

\* an iteration whose llm_response has content and no tool_calls: break
ContentResponse ==
    /\ ag_pc = "loop"
    /\ step_count < max_steps
    /\ llm_calls' = llm_calls + 1
    /\ prev_messages' = messages
    /\ last_response' = "content"
    /\ ag_pc' = "break"
    /\ UNCHANGED <<step_count, messages, lands>>

\* an iteration whose llm_response has neither
EmptyResponse ==
    /\ ag_pc = "loop"
    /\ step_count < max_steps
    /\ llm_calls' = llm_calls + 1
    /\ prev_messages' = messages
    /\ last_response' = "empty"
    /\ step_count' = step_count + 1
    /\ UNCHANGED <<ag_pc, messages, lands>>

\* the loop is left, by break or by its condition: AIRSIM_CLIENT.land()
FinalLand ==
    /\ \/ ag_pc = "break"
       \/ ag_pc = "loop" /\ step_count >= max_steps
    /\ lands' = lands + 1
    /\ ag_pc' = "done"
    /\ UNCHANGED <<step_count, llm_calls, messages, prev_messages, last_response>>

AgentNext ==
    \/ RunAgent /\ UNCHANGED <<ctlVars, lidarVars, frameVars, camVars, connVars, memVars, labelVars>>
    \/ ToolCallsResponse /\ UNCHANGED <<ctlVars, lidarVars, frameVars, camVars, connVars, memVars, labelVars>>
    \/ ContentResponse /\ UNCHANGED <<ctlVars, lidarVars, frameVars, camVars, connVars, memVars, labelVars>>
    \/ EmptyResponse /\ UNCHANGED <<ctlVars, lidarVars, frameVars, camVars, connVars, memVars, labelVars>>
    \/ FinalLand /\ UNCHANGED <<ctlVars, lidarVars, frameVars, camVars, connVars, memVars, labelVars>>

AgentStart == CtlInit /\ LidarIdle /\ FrameIdle /\ CamIdle /\ ConnIdle /\ AgentInit /\ MemIdle /\ LabelIdle

AgentSpec == AgentStart /\ [][AgentNext]_vars

(***************************************************************************)
(* C24: run_agent makes at most max_steps LLM calls; it leaves the loop    *)
(* early exactly when the response has content and no tool calls; a        *)
(* response with neither consumes one step and leaves the history as it    *)
(* was; on every path out of the loop the land command is issued exactly   *)
(* once, as the last action.                                               *)
(***************************************************************************)
C24_LoopBound ==
    /\ llm_calls <= max_steps
    /\ step_count <= max_steps
    /\ llm_calls = step_count + (IF last_response = "content" THEN 1 ELSE 0)
    /\ ag_pc = "break" => last_response = "content"
    /\ ag_pc = "loop" => last_response # "content"
    /\ ag_pc = "done" => (step_count < max_steps <=> last_response = "content")
    /\ last_response = "empty" => messages = prev_messages

C24_AgentTermination ==
    /\ C24_LoopBound
    /\ ag_pc = "done" => lands = 1
    /\ ag_pc # "done" => lands = 0

(***************************************************************************)
(* C25: at the end of every iteration each assistant message with tool     *)
(* calls is followed at once by one tool message per tool call, in the     *)
(* same order and with the matching tool_call_id; the system and the user  *)
(* message stay first, and no message is removed or reordered.             *)
(***************************************************************************)
C25_HistoryProtocol ==
    ag_pc \in {"loop", "break", "done"} =>
        /\ Len(messages) >= 2
        /\ messages[1] = <<"system">>
        /\ messages[2] = <<"user">>
        /\ \A i \in 3..Len(messages) : messages[i][1] \in {"assistant", "tool"}
        /\ \A i \in 1..Len(messages) :
               messages[i][1] = "assistant" =>
                   LET tool_calls == messages[i][2]
                       n == Len(tool_calls)
                   IN  /\ n >= 1
                       /\ i + n <= Len(messages)
                       /\ \A k \in 1..n :
                              /\ messages[i + k][1] = "tool"
                              /\ messages[i + k][2] = tool_calls[k][1]
                       /\ i + n < Len(messages) => messages[i + n + 1][1] = "assistant"
        /\ \A i \in 1..Len(messages) :
               messages[i][1] = "tool" => messages[i - 1][1] \in {"assistant", "tool"}
        /\ IsPrefix(prev_messages, messages)

C25_Witness ==
    /\ ag_pc = "done"
    /\ Len(messages) = 7
    /\ Len(messages[3][2]) = 2
    /\ messages[6][1] = "assistant"
    /\ llm_calls = 4

(***************************************************************************)
(* C26: a tool call that names an unknown tool, carries malformed JSON     *)
(* arguments, or whose tool raises, gets an ERROR / EXECUTION ERROR        *)
(* observation as its tool message; it never aborts the loop, and the      *)
(* remaining tool calls of the same response are still executed in order.  *)
(***************************************************************************)
C26_FailuresAreObservations ==
    /\ ag_pc # "aborted"
    /\ \A i \in 1..Len(messages) :
           messages[i][1] = "assistant" =>
               LET tool_calls == messages[i][2]
               IN  \A k \in 1..Len(tool_calls) :
                       /\ i + k <= Len(messages)
                       /\ messages[i + k][1] = "tool"
                       /\ messages[i + k][2] = tool_calls[k][1]
                       /\ tool_calls[k][2] = "unknown tool" => messages[i + k][3] = "ERROR"
                       /\ tool_calls[k][2] \in {"malformed arguments", "raises"} =>
                              messages[i + k][3] = "EXECUTION ERROR"
                       /\ tool_calls[k][2] \in {"returns", "land"} =>
                              messages[i + k][3] = "OBSERVATION"
    /\ last_response = "tool_calls" => step_count = llm_calls

C26_Witness ==
    /\ ag_pc = "loop"
    /\ Len(messages) = 8
    /\ messages[3][2][1][2] = "raises"
    /\ messages[5] = <<"tool", <<1, 2>>, "OBSERVATION">>
    /\ messages[6][2][1][2] = "unknown tool"
    /\ messages[6][2][2][2] = "malformed arguments"
    /\ messages[8] = <<"tool", <<2, 2>>, "EXECUTION ERROR">>
    /\ last_response = "empty"

(***************************************************************************)
(* src/llm_agent_core/memory_manager.py: the persistent collection of one  *)
(* scene, the managers opened on it, check_and_initialize_scene_data and   *)
(* update_search_map.  An id str(n) is the number n.                       *)
(***************************************************************************)
MaxRecords == 2

MaxMemories == 3

\* an id that counts the stored records from zero
ItemIdFromZero(ids) == Len(ids)

\* item_id = str(len(self.collection.get()['ids']) + 1)
ItemId(ids) == Len(ids) + 1

\* import_semantic_jsonl_data: <<number of ids returned, ids added to the
\* collection>>; the collection.add call is commented out
ImportSemanticJsonlData(file) ==
    IF ~file.exists THEN <<0, <<>>>> ELSE <<file.records, <<>>>>

MemInit ==
    /\ load_static_map \in BOOLEAN
    /\ collection = <<>>
    /\ seg_map \in {[exists |-> FALSE, records |-> 0]} \cup
                   {[exists |-> TRUE, records |-> n] : n \in 0..MaxRecords}
    /\ map_imported = FALSE
    /\ last_check = <<>>
    /\ last_update = <<>>

\* MemoryManager(scene_name, load_static_map) on the same persistent store
NewMemoryManager ==
    /\ load_static_map' \in BOOLEAN
    /\ UNCHANGED <<collection, seg_map, map_imported, last_check, last_update>>

CheckAndInitializeSceneData ==
    /\ IF ~load_static_map
       THEN /\ last_check' = <<FALSE, FALSE, 0, map_imported>>
            /\ UNCHANGED <<collection, map_imported>>
       ELSE IF Len(collection) > 0
       THEN /\ last_check' = <<TRUE, TRUE, 0, map_imported>>
            /\ UNCHANGED <<collection, map_imported>>
       ELSE LET imported == ImportSemanticJsonlData(seg_map)
            IN  /\ last_check' = <<TRUE, TRUE, imported[1], map_imported>>
                /\ collection' = collection \o imported[2]
                /\ map_imported' = (map_imported \/ imported[1] >= 1)
    /\ UNCHANGED <<load_static_map, seg_map, last_update>>

\* update_search_map(coordinates, status, description); coordinates without a
\* latitude or longitude raise KeyError at line 128
UpdateSearchMap ==
    /\ Len(collection) < MaxMemories
    /\ \E well_formed \in BOOLEAN :
           IF well_formed
           THEN /\ collection' = Append(collection, ItemId(collection))
                /\ last_update' = <<Len(collection), "returned", ItemId(collection)>>
           ELSE /\ collection' = collection
                /\ last_update' = <<Len(collection), "KeyError", 0>>
    /\ UNCHANGED <<load_static_map, seg_map, map_imported, last_check>>

MemNext ==
    \/ NewMemoryManager
           /\ UNCHANGED <<ctlVars, lidarVars, frameVars, camVars, connVars, agentVars, labelVars>>
    \/ CheckAndInitializeSceneData
           /\ UNCHANGED <<ctlVars, lidarVars, frameVars, camVars, connVars, agentVars, labelVars>>
    \/ UpdateSearchMap
           /\ UNCHANGED <<ctlVars, lidarVars, frameVars, camVars, connVars, agentVars, labelVars>>

MemStart ==
    CtlInit /\ LidarIdle /\ FrameIdle /\ CamIdle /\ ConnIdle /\ AgentIdle /\ MemInit
        /\ LabelIdle

MemSpec == MemStart /\ [][MemNext]_vars

(***************************************************************************)
(* C27: with load_static_map True, once a check_and_initialize_scene_data  *)
(* call has imported a record the collection is non-empty, every later     *)
(* call reports the scene as initialised and imports nothing; with         *)
(* load_static_map False a call neither reads nor changes the collection.  *)
(***************************************************************************)
C27_InitialisedOnce ==
    /\ map_imported => Len(collection) > 0
    /\ last_check # <<>> =>
           /\ last_check[4] => last_check[3] = 0
           /\ ~last_check[1] => (~last_check[2] /\ last_check[3] = 0)

(***************************************************************************)
(* C28: an update_search_map call adds exactly one record, whose id is the *)
(* size of the collection plus one and differs from every stored id; the   *)
(* n-th record has id n.                                                   *)
(***************************************************************************)
C28_UniqueIds ==
    /\ \A n \in 1..Len(collection) : collection[n] = n
    /\ \A i, j \in 1..Len(collection) : collection[i] = collection[j] => i = j
    /\ last_update # <<>> /\ last_update[2] = "returned" =>
           /\ Len(collection) = last_update[1] + 1
           /\ last_update[3] = last_update[1] + 1
           /\ collection[Len(collection)] = last_update[3]
           /\ \A i \in 1..last_update[1] : collection[i] # last_update[3]
    /\ last_update # <<>> /\ last_update[2] # "returned" =>
           Len(collection) = last_update[1]

C28_Witness ==
    /\ collection = <<1, 2, 3>>
    /\ last_update = <<2, "returned", 3>>
    /\ last_check # <<>>

(***************************************************************************)
(* src/VLA/label_genertor.py: a run of the script.  A record is            *)
(* [is_labeled, vln_instruction]; an instruction is the sequence of its    *)
(* words, <<>> where the record has none.                                  *)
(***************************************************************************)
MaxTrajectories == 2

MaxRuns == 2

StartsWith(instruction, word) == instruction # <<>> /\ instruction[1] = word

\* what generate_vln_instruction can return when the client exists
LlmInstructions == {<<"Fly", "north">>, <<"LLM_ERROR", "Failed">>}

\* records a metadata file can hold: as collected, labelled, failed
StoredRecords ==
    {[is_labeled |-> "none", vln_instruction |-> <<>>],
     [is_labeled |-> "SUCCESS", vln_instruction |-> <<"Fly", "north">>],
     [is_labeled |-> "FAILED", vln_instruction |-> <<"LLM_ERROR", "Failed">>]}

\* the annotation Dict[str, Any] of line 48 is evaluated when the def statement
\* runs, and Any is not imported: NameError; an interpreter that defers
\* annotations loads the module
ModuleLoads == {FALSE, TRUE}

LabelInit ==
    /\ lg_pc = "off"
    /\ lg_runs = 0
    /\ LLM_CLIENT = "None"
    /\ metadata_file \in UNION {[1..n -> StoredRecords] : n \in 0..MaxTrajectories}
    /\ file_before = <<>>
    /\ labeled_data = <<>>
    /\ sent = {}

\* python label_genertor.py: the module body up to the call of main, and main
\* up to the for loop
RunScript ==
    /\ lg_pc \in {"off", "done", "NameError"}
    /\ lg_runs < MaxRuns
    /\ lg_runs' = lg_runs + 1
    /\ LLM_CLIENT' \in {"None", "OpenAI"}
    /\ file_before' = metadata_file
    /\ labeled_data' = <<>>
    /\ sent' = {}
    /\ \E loads \in ModuleLoads : lg_pc' = IF loads THEN "main" ELSE "NameError"
    /\ UNCHANGED metadata_file

\* one pass of "for line in lines"
LabelRecord ==
    /\ lg_pc = "main"
    /\ Len(labeled_data) < Len(metadata_file)
    /\ LET i == Len(labeled_data) + 1
           meta == metadata_file[i]
       IN  IF meta.is_labeled # "SUCCESS"
           THEN \E instruction \in IF LLM_CLIENT = "None"
                                   THEN {<<"LLM_ERROR", "Client">>}
                                   ELSE LlmInstructions :
                    /\ labeled_data' = Append(labeled_data,
                           [is_labeled |-> IF ~StartsWith(instruction, "LLM_ERROR")
                                           THEN "SUCCESS" ELSE "FAILED",
                            vln_instruction |-> instruction])
                    /\ sent' = IF LLM_CLIENT = "None" THEN sent ELSE sent \cup {i}
           ELSE /\ labeled_data' = Append(labeled_data, meta)
                /\ sent' = sent
    /\ UNCHANGED <<lg_pc, lg_runs, LLM_CLIENT, metadata_file, file_before>>

\* the file is written again from labeled_data
WriteBack ==
    /\ lg_pc = "main"
    /\ Len(labeled_data) = Len(metadata_file)
    /\ metadata_file' = labeled_data
    /\ lg_pc' = "done"
    /\ UNCHANGED <<lg_runs, LLM_CLIENT, file_before, labeled_data, sent>>

LabelNext ==
    \/ RunScript
           /\ UNCHANGED <<ctlVars, lidarVars, frameVars, camVars, connVars, agentVars, memVars>>
    \/ LabelRecord
           /\ UNCHANGED <<ctlVars, lidarVars, frameVars, camVars, connVars, agentVars, memVars>>
    \/ WriteBack
           /\ UNCHANGED <<ctlVars, lidarVars, frameVars, camVars, connVars, agentVars, memVars>>

LabelStart ==
    CtlInit /\ LidarIdle /\ FrameIdle /\ CamIdle /\ ConnIdle /\ AgentIdle /\ MemIdle
        /\ LabelInit

LabelSpec == LabelStart /\ [][LabelNext]_vars

\* what the claim says of the file a run leaves behind
Labelled ==
    /\ Len(metadata_file) = Len(file_before)
    /\ \A i \in 1..Len(file_before) :
           IF file_before[i].is_labeled = "SUCCESS"
           THEN metadata_file[i] = file_before[i] /\ i \notin sent
           ELSE /\ metadata_file[i].vln_instruction # <<>>
                /\ metadata_file[i].is_labeled \in {"SUCCESS", "FAILED"}
                /\ metadata_file[i].is_labeled = "FAILED" <=>
                       StartsWith(metadata_file[i].vln_instruction, "LLM_ERROR")
                /\ file_before[i].is_labeled = "FAILED" /\ LLM_CLIENT # "None" => i \in sent

\* the frame of main alone, for the runs in which the module loads
MainFrame == lg_pc = "done" => Labelled

(***************************************************************************)
(* C29: a run of the label generator keeps the number and order of the    *)
(* records; SUCCESS records are written back unchanged and not sent to the *)
(* LLM; every other record gets vln_instruction set and is_labeled         *)
(* SUCCESS, or FAILED exactly when the instruction starts with LLM_ERROR;  *)
(* FAILED records are retried by the next run.                             *)
(***************************************************************************)
C29_LabelFrame == lg_pc \in {"done", "NameError"} => Labelled

====
